---- MODULE Spec2Model ----
(***************************************************************************)
(* A model of reporter.py: a command-line program that asks for a city     *)
(* name, fetches its current weather from the OpenWeatherMap API, prints a *)
(* report, writes the record to city_data.csv and reads that file back.    *)
(*                                                                         *)
(* Text is a sequence of one-character strings, so that str.strip,         *)
(* str.capitalize, repr(float) and float(str) are modelled by what they do *)
(* to the characters.  A Python value is a record tagged with its type.    *)
(* A file on disk is NoFile or a sequence of lines, each line the sequence *)
(* of its cells (the quoting that the csv module adds and removes again is *)
(* library code and is not modelled).                                      *)
(***************************************************************************)
EXTENDS Integers, Sequences, FiniteSets, TLC

(***************************************************************************)
(* Bounds of the model                                                     *)
(***************************************************************************)
\* the longest input stream typed at the prompt
MaxLines == 3
\* the number of save / loadAll calls made in a row on one path
MaxOps == 3

\* the element of a one-element set; The({F(x) : x \in {e}}) is F(e) with e
\* evaluated once
The(S) == CHOOSE x \in S : TRUE

(***************************************************************************)
(* Text                                                                    *)
(***************************************************************************)
Whitespace == {" ", "\t"}

LowerLetters == <<"a", "b", "c", "d", "e", "f", "g", "h", "i", "j", "k", "l", "m",
                  "n", "o", "p", "q", "r", "s", "t", "u", "v", "w", "x", "y", "z">>

UpperLetters == <<"A", "B", "C", "D", "E", "F", "G", "H", "I", "J", "K", "L", "M",
                  "N", "O", "P", "Q", "R", "S", "T", "U", "V", "W", "X", "Y", "Z">>

Digits == <<"0", "1", "2", "3", "4", "5", "6", "7", "8", "9">>

IndexOf(c, seq) == IF \E i \in 1..Len(seq) : seq[i] = c
                   THEN CHOOSE i \in 1..Len(seq) : seq[i] = c
                   ELSE 0

\* str.upper() and str.lower() of one character
Upper(c) == IF IndexOf(c, LowerLetters) > 0 THEN UpperLetters[IndexOf(c, LowerLetters)] ELSE c

Lower(c) == IF IndexOf(c, UpperLetters) > 0 THEN LowerLetters[IndexOf(c, UpperLetters)] ELSE c

RECURSIVE LStrip(_)
LStrip(s) == IF s # <<>> /\ Head(s) \in Whitespace THEN LStrip(Tail(s)) ELSE s

RECURSIVE RStrip(_)
RStrip(s) == IF s # <<>> /\ s[Len(s)] \in Whitespace
             THEN RStrip(SubSeq(s, 1, Len(s) - 1))
             ELSE s

\* a faulty variant of Strip: only the leading whitespace is removed
StripLeadingOnly(s) == LStrip(s)

\* str.strip(): leading and trailing whitespace removed
Strip(s) == RStrip(LStrip(s))

\* str.capitalize(): first character upper-cased, the others lower-cased
Capitalize(s) == [i \in 1..Len(s) |-> IF i = 1 THEN Upper(s[i]) ELSE Lower(s[i])]

(***************************************************************************)
(* Python values                                                           *)
(***************************************************************************)
None == [tag |-> "None"]

PyStr(s) == [tag |-> "str", s |-> s]

PyInt(n) == [tag |-> "int", n |-> n]

\* a finite float is the decimal m / 10^e, kept normal: e >= 1, and no
\* trailing zero beyond the first fractional digit
PyFloat(m, e) == [tag |-> "float", m |-> m, e |-> e]

PyInf == [tag |-> "float", special |-> "inf"]

PyNan == [tag |-> "float", special |-> "nan"]

IsFinite(v) == v.tag = "int" \/ (v.tag = "float" /\ "m" \in DOMAIN v)

RECURSIVE Pow10(_)
Pow10(e) == IF e = 0 THEN 1 ELSE 10 * Pow10(e - 1)

RECURSIVE NormalFloat(_, _)
NormalFloat(m, e) == IF e = 0 THEN PyFloat(m * 10, 1)
                     ELSE IF e > 1 /\ m % 10 = 0 THEN NormalFloat(m \div 10, e - 1)
                     ELSE PyFloat(m, e)

Abs(n) == IF n < 0 THEN -n ELSE n

RECURSIVE FormatNat(_)
FormatNat(n) == IF n < 10 THEN <<Digits[n + 1]>>
                ELSE FormatNat(n \div 10) \o <<Digits[(n % 10) + 1]>>

RECURSIVE FormatFraction(_, _)
FormatFraction(n, e) == IF e = 0 THEN <<>>
                        ELSE FormatFraction(n \div 10, e - 1) \o <<Digits[(n % 10) + 1]>>

\* a faulty variant of Str: a float is written without its fractional digits
StrDropsFraction(v) ==
    IF v.tag = "None" THEN <<>>
    ELSE IF v.tag = "str" THEN v.s
    ELSE IF v.tag = "int" THEN (IF v.n < 0 THEN <<"-">> ELSE <<>>) \o FormatNat(Abs(v.n))
    ELSE (IF v.m < 0 THEN <<"-">> ELSE <<>>) \o FormatNat(Abs(v.m) \div Pow10(v.e))

\* the text csv.writer puts in a cell: "" for None, the string itself, and
\* str() (the shortest repr) of a number
Str(v) ==
    IF v.tag = "None" THEN <<>>
    ELSE IF v.tag = "str" THEN v.s
    ELSE IF v.tag = "int" THEN (IF v.n < 0 THEN <<"-">> ELSE <<>>) \o FormatNat(Abs(v.n))
    ELSE IF "special" \in DOMAIN v THEN (IF v.special = "inf" THEN <<"i", "n", "f">> ELSE <<"n", "a", "n">>)
    ELSE (IF v.m < 0 THEN <<"-">> ELSE <<>>)
         \o FormatNat(Abs(v.m) \div Pow10(v.e))
         \o <<".">>
         \o FormatFraction(Abs(v.m) % Pow10(v.e), v.e)

IsDigits(s) == \A i \in 1..Len(s) : IndexOf(s[i], Digits) > 0

RECURSIVE ParseNat(_)
ParseNat(s) == IF s = <<>> THEN 0
               ELSE 10 * ParseNat(SubSeq(s, 1, Len(s) - 1)) + (IndexOf(s[Len(s)], Digits) - 1)

Unsigned(s) == IF s # <<>> /\ Head(s) \in {"+", "-"} THEN Tail(s) ELSE s

Sign(s) == IF s # <<>> /\ Head(s) = "-" THEN -1 ELSE 1

LowerText(s) == [i \in 1..Len(s) |-> Lower(s[i])]

\* the part of a decimal literal before its point, and the part after it
IntPart(body) == IF IndexOf(".", body) = 0 THEN body ELSE SubSeq(body, 1, IndexOf(".", body) - 1)

FracPart(body) == IF IndexOf(".", body) = 0 THEN <<>>
                  ELSE SubSeq(body, IndexOf(".", body) + 1, Len(body))

\* the float that a literal denotes, given its sign and the text after the
\* sign, or ValueError
ParseDecimal(sgn, body) ==
    IF LowerText(body) \in {<<"i", "n", "f">>, <<"i", "n", "f", "i", "n", "i", "t", "y">>}
    THEN [ok |-> TRUE, v |-> PyInf]
    ELSE IF LowerText(body) = <<"n", "a", "n">>
    THEN [ok |-> TRUE, v |-> PyNan]
    ELSE IF IsDigits(IntPart(body)) /\ IsDigits(FracPart(body))
            /\ Len(IntPart(body)) + Len(FracPart(body)) > 0
    THEN [ok |-> TRUE,
          v  |-> NormalFloat(sgn * (ParseNat(IntPart(body)) * Pow10(Len(FracPart(body)))
                                    + ParseNat(FracPart(body))),
                             Len(FracPart(body)))]
    ELSE [ok |-> FALSE, exc |-> "ValueError"]

\* float(x): [ok, v] with the float, or [ok |-> FALSE, exc] with the class
\* of the exception raised.  The decimal grammar is sign, digits, an
\* optional point and digits, with surrounding whitespace allowed, and the
\* words inf, infinity and nan; exponents and digit separators are left out.
Float(x) ==
    IF x.tag = "None" THEN [ok |-> FALSE, exc |-> "TypeError"]
    ELSE IF x.tag = "int" THEN [ok |-> TRUE, v |-> NormalFloat(x.n, 0)]
    ELSE IF x.tag = "float" THEN [ok |-> TRUE, v |-> x]
    ELSE The({ParseDecimal(Sign(t), b) : <<t, b>> \in {<<Strip(x.s), Unsigned(Strip(x.s))>>}})

\* round(x) with one argument: the nearest integer, ties to the even one;
\* ValueError for a NaN and OverflowError for an infinity
Round(v) ==
    IF v.tag \notin {"int", "float"} THEN [ok |-> FALSE, exc |-> "TypeError"]
    ELSE IF v.tag = "int" THEN [ok |-> TRUE, v |-> v]
    ELSE IF "special" \in DOMAIN v
    THEN [ok |-> FALSE, exc |-> IF v.special = "nan" THEN "ValueError" ELSE "OverflowError"]
    ELSE LET q == v.m \div Pow10(v.e)
             r == v.m % Pow10(v.e)
         IN  [ok |-> TRUE,
              v  |-> PyInt(IF 2 * r < Pow10(v.e) THEN q
                           ELSE IF 2 * r > Pow10(v.e) THEN q + 1
                           ELSE IF q % 2 = 0 THEN q ELSE q + 1)]

(***************************************************************************)
(* Exceptions: the classes the program can meet and what an except clause  *)
(* catches                                                                 *)
(***************************************************************************)
\* each exception class with the classes it derives from, itself included
\* (requests' JSONDecodeError derives from both ValueError and
\* RequestException, RequestException from IOError, which is OSError)
Mro ==
    [Exception         |-> {"Exception"},
     LookupError       |-> {"LookupError", "Exception"},
     KeyError          |-> {"KeyError", "LookupError", "Exception"},
     IndexError        |-> {"IndexError", "LookupError", "Exception"},
     ValueError        |-> {"ValueError", "Exception"},
     TypeError         |-> {"TypeError", "Exception"},
     EOFError          |-> {"EOFError", "Exception"},
     AttributeError    |-> {"AttributeError", "Exception"},
     OverflowError     |-> {"OverflowError", "ArithmeticError", "Exception"},
     IOError           |-> {"IOError", "Exception"},
     FileNotFoundError |-> {"FileNotFoundError", "IOError", "Exception"},
     PermissionError   |-> {"PermissionError", "IOError", "Exception"},
     RequestException  |-> {"RequestException", "IOError", "Exception"},
     ConnectionError   |-> {"ConnectionError", "RequestException", "IOError", "Exception"},
     Timeout           |-> {"Timeout", "RequestException", "IOError", "Exception"},
     HTTPError         |-> {"HTTPError", "RequestException", "IOError", "Exception"},
     JSONDecodeError   |-> {"JSONDecodeError", "ValueError", "RequestException", "IOError",
                            "Exception"}]

\* issubclass(cls, base)
IsSubclass(cls, base) == base \in Mro[cls]

\* no exception is pending
NoExc == ""

(***************************************************************************)
(* Names and messages                                                      *)
(***************************************************************************)
ColCity == <<"C", "i", "t", "y">>

ColCountry == <<"C", "o", "u", "n", "t", "r", "y">>

ColTemperature == <<"T", "e", "m", "p", "e", "r", "a", "t", "u", "r", "e", " ", "(", "C", ")">>

ColHumidity == <<"H", "u", "m", "i", "d", "i", "t", "y", " ", "(", "%", ")">>

ColDescription == <<"D", "e", "s", "c", "r", "i", "p", "t", "i", "o", "n">>

NA == <<"N", "/", "A">>

\* the text an f-string puts for a value: str(), which is "None" for None
Format(v) == IF v.tag = "None" THEN <<"N", "o", "n", "e">> ELSE Str(v)

\* a line printed on standard output: the print statement and its values
Line(msg) == [msg |-> msg]

(***************************************************************************)
(* get_city_data                                                           *)
(***************************************************************************)
\* the dict literal key_city_data: data.get for the name, subscripts for the
\* other four paths, evaluated in order; the first failing subscript raises
Extract(data) ==
    IF "sys" \notin DOMAIN data THEN [exc |-> "KeyError", ret |-> None]
    ELSE IF "country" \notin DOMAIN data["sys"] THEN [exc |-> "KeyError", ret |-> None]
    ELSE IF "main" \notin DOMAIN data THEN [exc |-> "KeyError", ret |-> None]
    ELSE IF "temp" \notin DOMAIN data["main"] THEN [exc |-> "KeyError", ret |-> None]
    ELSE IF "humidity" \notin DOMAIN data["main"] THEN [exc |-> "KeyError", ret |-> None]
    ELSE IF "weather" \notin DOMAIN data THEN [exc |-> "KeyError", ret |-> None]
    ELSE IF 1 \notin DOMAIN data["weather"] THEN [exc |-> "IndexError", ret |-> None]
    ELSE IF "description" \notin DOMAIN data["weather"][1] THEN [exc |-> "KeyError", ret |-> None]
    ELSE [exc |-> NoExc,
          ret |-> [city        |-> IF "name" \in DOMAIN data THEN data["name"] ELSE None,
                   country     |-> data["sys"]["country"],
                   temperature |-> data["main"]["temp"],
                   humidity    |-> data["main"]["humidity"],
                   description |-> data["weather"][1]["description"]]]

\* the try block of get_city_data: requests.get, raise_for_status, json()
\* with its own handler, and the extraction
FetchBody(response) ==
    IF response.exc # NoExc THEN [exc |-> response.exc, ret |-> None, out |-> <<>>]
    ELSE IF response.status >= 400 THEN [exc |-> "HTTPError", ret |-> None, out |-> <<>>]
    ELSE IF ~response.json.ok
    THEN IF IsSubclass("JSONDecodeError", "ValueError")
         THEN [exc |-> NoExc, ret |-> None, out |-> <<Line("Failed to parse JSON")>>]
         ELSE [exc |-> "JSONDecodeError", ret |-> None, out |-> <<>>]
    ELSE The({[exc |-> x.exc, ret |-> x.ret, out |-> <<>>] : x \in {Extract(response.json.v)}})

\* a faulty variant of get_city_data: an undecodable body yields a record of
\* placeholders, not None
get_city_data_placeholder(response) ==
    The({IF r.exc # NoExc /\ IsSubclass(r.exc, "RequestException")
         THEN [exc |-> NoExc, ret |-> None,
               out |-> <<Line("An unexpected error occurred while retrieving data")>>]
         ELSE IF r.exc = NoExc /\ r.ret = None
         THEN [exc |-> NoExc,
               ret |-> [city |-> PyStr(<<>>), country |-> PyStr(<<>>),
                        temperature |-> PyFloat(0, 1), humidity |-> PyInt(0),
                        description |-> PyStr(<<>>)],
               out |-> r.out]
         ELSE r :
         r \in {FetchBody(response)}})

\* get_city_data(city): [ret, exc, out]; ret is the record or None, exc the
\* class of an exception that leaves the function
get_city_data(response) ==
    The({IF r.exc # NoExc /\ IsSubclass(r.exc, "RequestException")
         THEN [exc |-> NoExc, ret |-> None,
               out |-> <<Line("An unexpected error occurred while retrieving data")>>]
         ELSE r :
         r \in {FetchBody(response)}})

(***************************************************************************)
(* display_data                                                            *)
(***************************************************************************)
\* the lines of the report down to the one whose f-string raises
ReportLines(city_data) ==
    <<Line("--- Weather Report ---"),
      [msg |-> "City", city |-> Format(city_data.city), country |-> Format(city_data.country)]>>

\* display_data(city_data): [exc, out]
display_data(city_data) ==
    IF city_data # None
    THEN IF ~Round(city_data.temperature).ok
         THEN [exc |-> Round(city_data.temperature).exc, out |-> ReportLines(city_data)]
         ELSE IF city_data.description.tag # "str"
         THEN [exc |-> "AttributeError",
               out |-> ReportLines(city_data)
                       \o <<[msg |-> "Temperature",
                             temp |-> Format(Round(city_data.temperature).v)],
                            [msg |-> "Humidity", humidity |-> Format(city_data.humidity)]>>]
         ELSE [exc |-> NoExc,
               out |-> ReportLines(city_data)
                       \o <<[msg |-> "Temperature",
                             temp |-> Format(Round(city_data.temperature).v)],
                            [msg |-> "Humidity", humidity |-> Format(city_data.humidity)],
                            [msg |-> "Description",
                             description |-> Capitalize(city_data.description.s)]>>]
    ELSE [exc |-> NoExc,
          out |-> <<Line("Failed to retrieve data. Check city name or API key.")>>]

(***************************************************************************)
(* write_to_csv                                                            *)
(***************************************************************************)
NoFile == [exists |-> FALSE]

\* a file that exists, with its lines
FileOf(lines) == [exists |-> TRUE, lines |-> lines]

headers == <<ColCity, ColCountry, ColTemperature, ColHumidity, ColDescription>>

\* the data row handed to writer.writerow, as the cells csv.writer writes
DataRow(city_data) ==
    <<Str(city_data.city), Str(city_data.country), Str(city_data.temperature),
      Str(city_data.humidity), Str(city_data.description)>>

\* a faulty variant of write_to_csv: the file is opened in append mode
write_to_csv_append(city_data, file, io) ==
    IF city_data # None
    THEN IF io = "open_fails"
         THEN [exc |-> NoExc, file |-> file, opened |-> FALSE,
               out |-> <<Line("An error occurred while writing to CSV file")>>]
         ELSE [exc |-> NoExc, opened |-> TRUE,
               file |-> FileOf((IF file.exists THEN file.lines ELSE <<>>)
                               \o <<headers, DataRow(city_data)>>),
               out |-> <<Line("--- CSV Export ---"),
                         [msg |-> "written successfully", city |-> Format(city_data.city)]>>]
    ELSE [exc |-> NoExc, file |-> file, opened |-> FALSE, out |-> <<Line("Data failed to write.")>>]

\* a faulty variant of write_to_csv: the guard on city_data is missing, and a
\* header-only file is written when there is no record
write_to_csv_unguarded(city_data, file, io) ==
    IF io = "open_fails"
    THEN [exc |-> NoExc, file |-> file, opened |-> FALSE,
          out |-> <<Line("An error occurred while writing to CSV file")>>]
    ELSE [exc |-> NoExc, opened |-> TRUE,
          file |-> FileOf(IF city_data # None THEN <<headers, DataRow(city_data)>>
                          ELSE <<headers>>),
          out |-> <<Line("--- CSV Export ---")>>]

\* write_to_csv(city_data): [exc, file, opened, out].  io is what the file
\* system does: "ok", "open_fails" (open raises IOError, the file is left as
\* it was) or "write_fails" (IOError after open truncated the file)
write_to_csv(city_data, file, io) ==
    IF city_data # None
    THEN IF io = "open_fails"
         THEN [exc |-> NoExc, file |-> file, opened |-> FALSE,
               out |-> <<Line("An error occurred while writing to CSV file")>>]
         ELSE IF io = "write_fails"
         THEN [exc |-> NoExc, file |-> FileOf(<<>>), opened |-> TRUE,
               out |-> <<Line("An error occurred while writing to CSV file")>>]
         ELSE [exc |-> NoExc, file |-> FileOf(<<headers, DataRow(city_data)>>), opened |-> TRUE,
               out |-> <<Line("--- CSV Export ---"),
                         [msg |-> "written successfully", city |-> Format(city_data.city)]>>]
    ELSE [exc |-> NoExc, file |-> file, opened |-> FALSE, out |-> <<Line("Data failed to write.")>>]

(***************************************************************************)
(* read_csv                                                                *)
(***************************************************************************)
\* the lines csv.reader yields after the first: blank lines are skipped by
\* DictReader
RECURSIVE NonBlank(_)
NonBlank(lines) == IF lines = <<>> THEN <<>>
                   ELSE IF Head(lines) = <<>> THEN NonBlank(Tail(lines))
                   ELSE <<Head(lines)>> \o NonBlank(Tail(lines))

\* one row of csv.DictReader: the cells under the names of the first line,
\* None (restval) under a name the row has no cell for
RowDict(fieldnames, row) ==
    [k \in {fieldnames[i] : i \in 1..Len(fieldnames)} |->
        IF IndexOf(k, fieldnames) <= Len(row) THEN PyStr(row[IndexOf(k, fieldnames)]) ELSE None]

\* list(csv.DictReader(file))
DictReader(lines) ==
    IF lines = <<>> THEN <<>>
    ELSE The({[i \in 1..Len(rows) |-> RowDict(Head(lines), rows[i])] :
              rows \in {NonBlank(Tail(lines))}})

\* round(float(cell)): [ok, v], or [ok |-> FALSE, exc]
RoundFloat(cell) == The({IF f.ok THEN Round(f.v) ELSE f : f \in {Float(cell)}})

\* try: temp = round(float(...)) / except ValueError: temp = 'N/A'; any
\* other exception goes on
TempOrNA(cell) ==
    The({IF t.ok THEN [exc |-> NoExc, temp |-> t.v]
         ELSE IF IsSubclass(t.exc, "ValueError") THEN [exc |-> NoExc, temp |-> PyStr(NA)]
         ELSE [exc |-> t.exc, temp |-> None] :
         t \in {RoundFloat(cell)}})

\* the body of the for loop of read_csv for one row: the temperature, then
\* the print; an exception leaves the loop
ReportCity(city) ==
    IF ColTemperature \notin DOMAIN city THEN [exc |-> "KeyError", out |-> <<>>]
    ELSE The({IF t.exc # NoExc THEN [exc |-> t.exc, out |-> <<>>]
              ELSE IF ColCity \notin DOMAIN city THEN [exc |-> "KeyError", out |-> <<>>]
              ELSE [exc |-> NoExc,
                    out |-> <<[msg |-> "Row", city |-> Format(city[ColCity]),
                               temp |-> Format(t.temp)]>>] :
              t \in {TempOrNA(city[ColTemperature])}})

\* the for loop over the rows: what it prints, and the exception that ends it
RECURSIVE ReportCities(_)
ReportCities(cities) ==
    IF cities = <<>> THEN [exc |-> NoExc, out |-> <<>>]
    ELSE The({IF h.exc # NoExc THEN h
              ELSE The({[exc |-> t.exc, out |-> h.out \o t.out] :
                        t \in {ReportCities(Tail(cities))}}) :
              h \in {ReportCity(Head(cities))}})

\* the lines read_csv prints for the rows it has read
Summary(cities) ==
    IF Len(cities) # 0
    THEN The({[exc |-> r.exc,
               out |-> <<Line("--- CSV Summary ---"),
                         [msg |-> "Total number of cities", count |-> Len(cities)],
                         Line("Cities and their temperatures:")>> \o r.out] :
              r \in {ReportCities(cities)}})
    ELSE [exc |-> NoExc,
          out |-> <<Line("--- CSV Summary ---"),
                    [msg |-> "Total number of cities", count |-> Len(cities)],
                    Line("No data found.")>>]

\* the try block of read_csv: open, DictReader, the count and the loop
ReadBody(file, io) ==
    IF ~file.exists THEN [exc |-> "FileNotFoundError", out |-> <<>>]
    ELSE IF io = "open_fails" THEN [exc |-> "PermissionError", out |-> <<>>]
    ELSE The({Summary(cities) : cities \in {DictReader(file.lines)}})

\* a faulty variant of read_csv: the except IOError clause comes first, so a
\* missing file is reported as any other I/O error
read_csv_ioerror_first(file, io) ==
    The({IF r.exc # NoExc /\ IsSubclass(r.exc, "IOError")
         THEN [exc |-> NoExc,
               out |-> r.out \o <<Line("Error occurred while reading the CSV file")>>]
         ELSE r :
         r \in {ReadBody(file, io)}})

\* read_csv(): [exc, out].  io is what the file system does when an existing
\* file is opened: "ok" or "open_fails"
read_csv(file, io) ==
    The({IF r.exc # NoExc /\ IsSubclass(r.exc, "FileNotFoundError")
         THEN [exc |-> NoExc,
               out |-> r.out \o <<Line("not found. Please check directory or file name.")>>]
         ELSE IF r.exc # NoExc /\ IsSubclass(r.exc, "IOError")
         THEN [exc |-> NoExc,
               out |-> r.out \o <<Line("Error occurred while reading the CSV file")>>]
         ELSE r :
         r \in {ReadBody(file, io)}})

(***************************************************************************)
(* What the environment can do: the lines typed, the provider's answers,   *)
(* the file found on disk, the file system's faults                        *)
(***************************************************************************)
Oslo == <<"O", "s", "l", "o">>

Rio == <<"R", "i", "o">>

InputLines == {<<>>, <<" ", " ">>, Oslo, <<" ", "R", "i", "o", "\t">>}

RECURSIVE SeqsUpTo(_, _)
SeqsUpTo(S, n) == IF n = 0 THEN {<<>>}
                  ELSE SeqsUpTo(S, n - 1)
                       \cup {Append(q, x) : q \in {t \in SeqsUpTo(S, n - 1) : Len(t) = n - 1}, x \in S}

Rain == <<"l", "i", "g", "h", "t", " ", "r", "a", "i", "n">>

Fog == <<"f", "o", "g">>

\* a decoded body with all five paths
Body(name, country, temp, humidity, description) ==
    [name |-> PyStr(name), sys |-> [country |-> PyStr(country)],
     main |-> [temp |-> temp, humidity |-> PyInt(humidity)],
     weather |-> <<[description |-> PyStr(description)]>>]

CompleteBodies ==
    {Body(Oslo, <<"N", "O">>, PyFloat(216, 1), 55, Rain),
     Body(Oslo, <<"N", "O">>, PyFloat(-5, 1), 90, Fog),
     Body(Rio, <<"B", "R">>, PyFloat(25, 1), 100, Fog),
     Body(Rio, <<"B", "R">>, PyInt(30), 0, Rain)}

\* decoded bodies that lack one of the five paths
IncompleteBodies ==
    {[sys |-> [country |-> PyStr(<<"N", "O">>)],
      main |-> [temp |-> PyFloat(216, 1), humidity |-> PyInt(55)],
      weather |-> <<[description |-> PyStr(Rain)]>>],
     [name |-> PyStr(Oslo),
      main |-> [temp |-> PyFloat(216, 1), humidity |-> PyInt(55)],
      weather |-> <<[description |-> PyStr(Rain)]>>],
     [name |-> PyStr(Oslo), sys |-> [country |-> PyStr(<<"N", "O">>)],
      main |-> [humidity |-> PyInt(55)],
      weather |-> <<[description |-> PyStr(Rain)]>>],
     [name |-> PyStr(Oslo), sys |-> [country |-> PyStr(<<"N", "O">>)],
      main |-> [temp |-> PyFloat(216, 1)],
      weather |-> <<[description |-> PyStr(Rain)]>>],
     [name |-> PyStr(Oslo), sys |-> [country |-> PyStr(<<"N", "O">>)],
      main |-> [temp |-> PyFloat(216, 1), humidity |-> PyInt(55)],
      weather |-> <<>>],
     [name |-> PyStr(Oslo), sys |-> [country |-> PyStr(<<"N", "O">>)],
      main |-> [temp |-> PyFloat(216, 1), humidity |-> PyInt(55)],
      weather |-> <<[id |-> PyInt(500)]>>]}

\* what requests.get can bring: an exception, a status with a body that
\* json() decodes or not
Responses ==
    {[exc |-> e, status |-> 0, json |-> [ok |-> FALSE]] : e \in {"ConnectionError", "Timeout"}}
    \cup {[exc |-> NoExc, status |-> c, json |-> [ok |-> FALSE]] : c \in {401, 404}}
    \cup {[exc |-> NoExc, status |-> 200, json |-> [ok |-> FALSE]]}
    \cup {[exc |-> NoExc, status |-> 200, json |-> [ok |-> TRUE, v |-> b]] :
             b \in CompleteBodies \cup IncompleteBodies}

T216 == <<"2", "1", ".", "6">>

T25 == <<"2", ".", "5">>

GoodRow == <<Oslo, <<"N", "O">>, T216, <<"5", "5">>, Rain>>

TieRow == <<Rio, <<"B", "R">>, T25, <<"7">>, Fog>>

TextRow == <<Rio, <<"B", "R">>, <<"h", "o", "t">>, <<"7">>, Fog>>

NanRow == <<Rio, <<"B", "R">>, <<"n", "a", "n">>, <<"7">>, Fog>>

InfRow == <<Rio, <<"B", "R">>, <<"i", "n", "f">>, <<"7">>, Fog>>

\* a row that ends before the temperature cell
ShortRow == <<Rio, <<"B", "R">>>>

\* the header line of a file that some other program wrote
OtherHeader == <<ColCity, <<"T", "e", "m", "p">>>>

\* what may be on disk when a run starts
PriorFiles ==
    {NoFile, FileOf(<<>>), FileOf(<<headers>>), FileOf(<<headers, GoodRow>>),
     FileOf(<<headers, ShortRow, GoodRow>>), FileOf(<<OtherHeader, <<Oslo, T216>>>>)}

\* what may be on disk when save and loadAll are called
StoredFiles ==
    PriorFiles
    \cup {FileOf(<<headers, GoodRow, TieRow>>),
          FileOf(<<headers, GoodRow, TextRow, TieRow>>),
          FileOf(<<headers, NanRow, <<>>, GoodRow>>),
          FileOf(<<headers, InfRow, GoodRow>>),
          FileOf(<<headers, TieRow, <<Oslo, <<"N", "O">>, <<>>, <<"5", "5">>, Rain>>>>)}

WriteFaults == {"ok", "open_fails", "write_fails"}

ReadFaults == {"ok", "open_fails"}

\* the records get_city_data builds from the complete bodies
WeatherRecords == {Extract(b).ret : b \in CompleteBodies}

(***************************************************************************)
(* The program                                                             *)
(***************************************************************************)
VARIABLES
    pc,         \* the statement of the main block to run next
    stdin0,     \* the lines that will be typed at the prompt
    consumed,   \* how many of them input() has read
    rejected,   \* how many times get_city has asked again
    city,       \* what get_city returned
    city_data,  \* what get_city_data returned
    exc,        \* the exception travelling up the main block
    file,       \* city_data.csv
    file0,      \* city_data.csv as the run found it
    out,        \* standard output
    log         \* the calls made, each with what it was given and what it did

vars == <<pc, stdin0, consumed, rejected, city, city_data, exc, file, file0, out, log>>

\* a faulty variant of main_body: the record is stored before it is displayed
main_body_store_first == <<"get_city", "get_city_data", "write_to_csv", "display_data", "read_csv">>

\* the statements of the try block of the main block, in order
main_body == <<"get_city", "get_city_data", "display_data", "write_to_csv", "read_csv">>

\* where the main block goes after a statement: on to the next one, or to
\* its except clause when the statement raised
After(stmt, raised) ==
    IF raised # NoExc THEN "except"
    ELSE IF IndexOf(stmt, main_body) = Len(main_body) THEN "Done"
    ELSE main_body[IndexOf(stmt, main_body) + 1]

\* the except clause of the main block
MainCatches(e) == IsSubclass(e, "Exception")

Init ==
    /\ pc = main_body[1]
    /\ stdin0 \in SeqsUpTo(InputLines, MaxLines)
    /\ consumed = 0
    /\ rejected = 0
    /\ city = None
    /\ city_data = None
    /\ exc = NoExc
    /\ file \in PriorFiles
    /\ file0 = file
    /\ out = <<>>
    /\ log = <<>>

\* one turn of the loop of get_city: input(), strip, and the test
GetCity ==
    /\ pc = "get_city"
    /\ IF consumed = Len(stdin0)
       THEN /\ exc' = "EOFError"
            /\ pc' = After("get_city", "EOFError")
            /\ UNCHANGED <<consumed, rejected, city, out>>
       ELSE /\ consumed' = consumed + 1
            /\ exc' = NoExc
            /\ IF Strip(stdin0[consumed + 1]) # <<>>
               THEN /\ city' = PyStr(Strip(stdin0[consumed + 1]))
                    /\ pc' = After("get_city", NoExc)
                    /\ UNCHANGED <<rejected, out>>
               ELSE /\ rejected' = rejected + 1
                    /\ out' = Append(out, Line("Please enter a valid city name."))
                    /\ UNCHANGED <<pc, city>>
    /\ UNCHANGED <<stdin0, city_data, file, file0, log>>

GetCityData ==
    /\ pc = "get_city_data"
    /\ \E response \in Responses :
       \E r \in {get_city_data(response)} :
              /\ city_data' = r.ret
              /\ exc' = r.exc
              /\ out' = out \o r.out
              /\ pc' = After("get_city_data", r.exc)
              /\ log' = Append(log, [call |-> "get_city_data",
                                     request |-> [q |-> city, units |-> "metric"],
                                     response |-> response, ret |-> r.ret,
                                     exc |-> r.exc, out |-> r.out])
    /\ UNCHANGED <<stdin0, consumed, rejected, city, file, file0>>

DisplayData ==
    /\ pc = "display_data"
    /\ \E r \in {display_data(city_data)} :
           /\ exc' = r.exc
           /\ out' = out \o r.out
           /\ pc' = After("display_data", r.exc)
           /\ log' = Append(log, [call |-> "display_data", arg |-> city_data,
                                  exc |-> r.exc, out |-> r.out])
    /\ UNCHANGED <<stdin0, consumed, rejected, city, city_data, file, file0>>

WriteToCsv ==
    /\ pc = "write_to_csv"
    /\ \E io \in WriteFaults :
       \E r \in {write_to_csv(city_data, file, io)} :
              /\ file' = r.file
              /\ exc' = r.exc
              /\ out' = out \o r.out
              /\ pc' = After("write_to_csv", r.exc)
              /\ log' = Append(log, [call |-> "write_to_csv", arg |-> city_data, io |-> io,
                                     before |-> file, opened |-> r.opened,
                                     exc |-> r.exc, out |-> r.out])
    /\ UNCHANGED <<stdin0, consumed, rejected, city, city_data, file0>>

ReadCsv ==
    /\ pc = "read_csv"
    /\ \E io \in ReadFaults :
       \E r \in {read_csv(file, io)} :
              /\ exc' = r.exc
              /\ out' = out \o r.out
              /\ pc' = After("read_csv", r.exc)
              /\ log' = Append(log, [call |-> "read_csv", io |-> io, before |-> file,
                                     exc |-> r.exc, out |-> r.out])
    /\ UNCHANGED <<stdin0, consumed, rejected, city, city_data, file, file0>>

\* the except clause of the main block: the message, and a clean end; an
\* exception it does not catch ends the process with a traceback
MainExcept ==
    /\ pc = "except"
    /\ IF MainCatches(exc)
       THEN /\ out' = Append(out, Line("An unexpected error occurred during testing"))
            /\ log' = Append(log, [call |-> "except", exc |-> exc])
            /\ exc' = NoExc
            /\ pc' = "Done"
       ELSE /\ pc' = "Crashed"
            /\ UNCHANGED <<out, log, exc>>
    /\ UNCHANGED <<stdin0, consumed, rejected, city, city_data, file, file0>>

Next == GetCity \/ GetCityData \/ DisplayData \/ WriteToCsv \/ ReadCsv \/ MainExcept

Spec == Init /\ [][Next]_vars

\* the main block runs to its end: no statement waits for anything but the
\* line typed at the prompt, the request has a timeout
FairSpec == Spec /\ WF_vars(Next)

(***************************************************************************)
(* The store on its own: reporter.py imported as a module (its main block  *)
(* does not run), write_to_csv and read_csv called on one path             *)
(***************************************************************************)
StoreInit ==
    /\ pc = "imported"
    /\ stdin0 = <<>>
    /\ consumed = 0
    /\ rejected = 0
    /\ city = None
    /\ city_data = None
    /\ exc = NoExc
    /\ file \in StoredFiles
    /\ file0 = file
    /\ out = <<>>
    /\ log = <<>>

Save ==
    /\ pc = "imported"
    /\ Len(log) < MaxOps
    /\ \E record \in WeatherRecords, io \in WriteFaults :
       \E r \in {write_to_csv(record, file, io)} :
              /\ file' = r.file
              /\ out' = out \o r.out
              /\ log' = Append(log, [call |-> "write_to_csv", arg |-> record, io |-> io,
                                     before |-> file, opened |-> r.opened,
                                     exc |-> r.exc, out |-> r.out])
    /\ UNCHANGED <<pc, stdin0, consumed, rejected, city, city_data, exc, file0>>

LoadAll ==
    /\ pc = "imported"
    /\ Len(log) < MaxOps
    /\ \E io \in ReadFaults :
       \E r \in {read_csv(file, io)} :
              /\ out' = out \o r.out
              /\ log' = Append(log, [call |-> "read_csv", io |-> io, before |-> file,
                                     exc |-> r.exc, out |-> r.out])
    /\ UNCHANGED <<pc, stdin0, consumed, rejected, city, city_data, exc, file, file0>>

StoreNext == Save \/ LoadAll

StoreSpec == StoreInit /\ [][StoreNext]_vars

(***************************************************************************)
(* What the claims speak of                                                *)
(***************************************************************************)
\* the names of the calls made so far, in order
Calls == [i \in 1..Len(log) |-> log[i].call]

Entries(call) == {i \in 1..Len(log) : log[i].call = call}

\* the fetch ended in a transport error, a non-2xx status or a body that
\* does not decode
IsFetchFailure(response) ==
    response.exc # NoExc \/ response.status >= 400 \/ ~response.json.ok

\* the five paths of a decoded body are all there
HasAllPaths(data) ==
    /\ "name" \in DOMAIN data
    /\ "sys" \in DOMAIN data /\ "country" \in DOMAIN data["sys"]
    /\ "main" \in DOMAIN data /\ "temp" \in DOMAIN data["main"]
    /\ "humidity" \in DOMAIN data["main"]
    /\ "weather" \in DOMAIN data /\ 1 \in DOMAIN data["weather"]
    /\ "description" \in DOMAIN data["weather"][1]

FetchFailed == \E i \in Entries("get_city_data") : IsFetchFailure(log[i].response)

FetchSucceeded ==
    \E i \in Entries("get_city_data") :
        ~IsFetchFailure(log[i].response) /\ HasAllPaths(log[i].response.json.v)

\* the lines of a sequence of printed lines that come from one print statement
Printed(lines, msg) == {i \in 1..Len(lines) : lines[i].msg = msg}

AllWhitespace(s) == \A i \in 1..Len(s) : s[i] \in Whitespace

\* r is s without the whitespace around it
IsTrimOf(r, s) ==
    /\ r # <<>>
    /\ r[1] \notin Whitespace
    /\ r[Len(r)] \notin Whitespace
    /\ \E i \in 1..Len(s) :
          /\ i + Len(r) - 1 <= Len(s)
          /\ SubSeq(s, i, i + Len(r) - 1) = r
          /\ AllWhitespace(SubSeq(s, 1, i - 1))
          /\ AllWhitespace(SubSeq(s, i + Len(r), Len(s)))

MainOrder == <<"get_city_data", "display_data", "write_to_csv", "read_csv">>

IsPrefix(a, b) == Len(a) <= Len(b) /\ SubSeq(b, 1, Len(a)) = a

\* the calls of the main block without the entry of its except clause
StageCalls == IF Len(log) > 0 /\ log[Len(log)].call = "except"
              THEN SubSeq(Calls, 1, Len(log) - 1)
              ELSE Calls

\* the messages with which the program reports that something went wrong
FailureMessages ==
    {"Failed to parse JSON", "An unexpected error occurred while retrieving data",
     "Failed to retrieve data. Check city name or API key.",
     "An error occurred while writing to CSV file", "Data failed to write.",
     "not found. Please check directory or file name.",
     "Error occurred while reading the CSV file",
     "An unexpected error occurred during testing"}

\* something went wrong in the run: the prompt ended, the fetch brought no
\* complete record, the file system refused, or a statement raised
RunFailed ==
    \/ \E i \in 1..Len(log) : log[i].exc # NoExc
    \/ \E i \in Entries("get_city_data") :
          IsFetchFailure(log[i].response) \/ ~HasAllPaths(log[i].response.json.v)
    \/ \E i \in Entries("write_to_csv") : log[i].arg # None /\ log[i].io # "ok"
    \/ \E i \in Entries("read_csv") : ~log[i].before.exists \/ log[i].io # "ok"

HasFailureMessage == \E i \in 1..Len(out) : out[i].msg \in FailureMessages

C3_AlwaysEndsCleanlyWithMessage ==
    /\ [](city # None => <>(pc = "Done"))
    /\ [](pc # "Crashed")
    /\ []((pc = "Done" /\ RunFailed) => HasFailureMessage)

C3_Witness ==
    /\ pc = "Done"
    /\ city # None
    /\ \E i \in Entries("except") : log[i].exc = "KeyError"

(***************************************************************************)
(* C4  After a successful save, whatever was saved or found on the path    *)
(* before, the file is the header line and one data row with the raw       *)
(* values of the record saved last.                                        *)
(***************************************************************************)
LastSave == CHOOSE i \in Entries("write_to_csv") : \A j \in Entries("write_to_csv") : j <= i

C4_FileIsHeaderAndLastRecord ==
    (Entries("write_to_csv") # {} /\ log[LastSave].io = "ok") =>
        /\ file.exists
        /\ Len(file.lines) = 2
        /\ file.lines[1] = headers
        /\ Len(file.lines[2]) = 5
        /\ file.lines[2][1] = log[LastSave].arg.city.s
        /\ file.lines[2][2] = log[LastSave].arg.country.s
        /\ Float(PyStr(file.lines[2][3])) = Float(log[LastSave].arg.temperature)
        /\ Float(PyStr(file.lines[2][4])) = Float(log[LastSave].arg.humidity)
        /\ file.lines[2][5] = log[LastSave].arg.description.s

C4_Witness ==
    /\ Len(log) = 2
    /\ log[1].call = "write_to_csv" /\ log[1].io = "ok"
    /\ log[2].call = "write_to_csv" /\ log[2].io = "ok"
    /\ log[1].arg # log[2].arg
    /\ file0 = FileOf(<<headers, GoodRow, TieRow>>)
    /\ log[2].arg.temperature = PyFloat(25, 1)

(***************************************************************************)
(* C5  A successful save of a record followed at once by loadAll reports   *)
(* one row, with the record's city and with the temperature that the       *)
(* report of the record shows.                                             *)
(***************************************************************************)
\* the temperature display_data prints for a record
DisplayedTemperature(record) ==
    LET lines == display_data(record).out
    IN  lines[CHOOSE i \in Printed(lines, "Temperature") : TRUE].temp

C5_SaveThenLoadAgrees ==
    \A i \in Entries("write_to_csv") :
        (log[i].io = "ok" /\ i + 1 \in Entries("read_csv") /\ log[i + 1].io = "ok") =>
            /\ log[i + 1].exc = NoExc
            /\ \E k \in Printed(log[i + 1].out, "Total number of cities") :
                  log[i + 1].out[k].count = 1
            /\ Cardinality(Printed(log[i + 1].out, "Row")) = 1
            /\ \A k \in Printed(log[i + 1].out, "Row") :
                  /\ log[i + 1].out[k].city = log[i].arg.city.s
                  /\ log[i + 1].out[k].temp = DisplayedTemperature(log[i].arg)

C5_Witness ==
    /\ Len(log) = 2
    /\ log[1].call = "write_to_csv" /\ log[1].io = "ok"
    /\ log[1].arg.temperature = PyFloat(25, 1)
    /\ log[2].call = "read_csv" /\ log[2].io = "ok"
    /\ file0 = FileOf(<<headers, ShortRow, GoodRow>>)
    /\ \E k \in Printed(log[2].out, "Row") : log[2].out[k].temp = <<"2">>

(***************************************************************************)
(* C6  loadAll reports every row of the file in file order; a row whose    *)
(* temperature does not parse as a number is reported with N/A, and every  *)
(* other row with its rounded temperature.                                 *)
(***************************************************************************)
\* the cell of a data row under a column of the header, None when the row
\* has no such cell
Cell(row, col) == IF IndexOf(col, headers) <= Len(row) THEN PyStr(row[IndexOf(col, headers)])
                  ELSE None

IsNumber(cell) == Float(cell).ok /\ IsFinite(Float(cell).v)

ExpectedTemperature(cell) == IF IsNumber(cell) THEN Format(Round(Float(cell).v).v) ELSE NA

C6_EveryRowReported ==
    \A i \in Entries("read_csv") :
        (log[i].io = "ok" /\ log[i].before.exists /\ log[i].before.lines # <<>>
         /\ Head(log[i].before.lines) = headers) =>
            LET rows == NonBlank(Tail(log[i].before.lines))
                rep  == SelectSeq(log[i].out, LAMBDA l : l.msg = "Row")
            IN  /\ Len(rep) = Len(rows)
                /\ \A k \in 1..Len(rows) :
                      /\ rep[k].city = Format(Cell(rows[k], ColCity))
                      /\ rep[k].temp = ExpectedTemperature(Cell(rows[k], ColTemperature))

(***************************************************************************)
(* C7  loadAll on a path with no file ends in the NotFound outcome and a   *)
(* zero-count summary, without raising, and differently from any other     *)
(* I/O error.                                                              *)
(***************************************************************************)
NotFoundLine == Line("not found. Please check directory or file name.")

C7_NotFoundWithZeroCountSummary ==
    \A i \in Entries("read_csv") :
        ~log[i].before.exists =>
            /\ log[i].exc = NoExc
            /\ \E k \in 1..Len(log[i].out) : log[i].out[k] = NotFoundLine
            /\ \E k \in Printed(log[i].out, "Total number of cities") :
                  log[i].out[k].count = 0

\* C7 as amended: loadAll on a path with no file prints the not-found line
\* and nothing else (no summary, no count, no row), without raising; any
\* other I/O error prints a different line
C7_NotFoundLineOnly ==
    \A i \in Entries("read_csv") :
        /\ ~log[i].before.exists =>
              (log[i].exc = NoExc /\ log[i].out = <<NotFoundLine>>)
        /\ (log[i].before.exists /\ log[i].io = "open_fails") =>
              /\ log[i].exc = NoExc
              /\ log[i].out = <<Line("Error occurred while reading the CSV file")>>
              /\ log[i].out # <<NotFoundLine>>

C7_Witness ==
    /\ \E i \in Entries("read_csv") : ~log[i].before.exists
    /\ \E i \in Entries("read_csv") : log[i].before.exists /\ log[i].io = "open_fails"

(***************************************************************************)
(* C8  get_city returns the trimmed form of the first line that is not     *)
(* empty after stripping, asks again once for each line before it, and     *)
(* reads no line after it.                                                 *)
(***************************************************************************)
FirstNonBlank(stream) ==
    CHOOSE k \in 1..Len(stream) :
        ~AllWhitespace(stream[k]) /\ \A j \in 1..(k - 1) : AllWhitespace(stream[j])

C8_FirstNonBlankLineTrimmed ==
    /\ city # None =>
          /\ \E k \in 1..Len(stdin0) : ~AllWhitespace(stdin0[k])
          /\ consumed = FirstNonBlank(stdin0)
          /\ IsTrimOf(city.s, stdin0[consumed])
          /\ rejected = consumed - 1
          /\ Cardinality(Printed(out, "Please enter a valid city name.")) = consumed - 1
    /\ (city = None /\ pc = "get_city") =>
          /\ rejected = consumed
          /\ \A j \in 1..consumed : AllWhitespace(stdin0[j])

C8_Witness ==
    /\ stdin0 = <<<<>>, <<" ", " ">>, <<" ", "R", "i", "o", "\t">>>>
    /\ city = PyStr(Rio)
    /\ rejected = 2
    /\ pc = "Done"

(***************************************************************************)
(* C9  A record that get_city_data returns is fully populated: if one of   *)
(* the five paths is absent from the decoded body no record is produced,   *)
(* and no field of a record holds a placeholder.                           *)
(***************************************************************************)
C9_RecordFullyPopulated ==
    \A i \in Entries("get_city_data") :
        log[i].ret # None =>
            /\ HasAllPaths(log[i].response.json.v)
            /\ \A f \in DOMAIN log[i].ret : log[i].ret[f] # None

(***************************************************************************)
(* C10  The lookup is issued once, with no retry, and the stages of a run  *)
(* whose fetch succeeds happen once each in the order fetch, present,      *)
(* store, summarize: no write before the report, no read before the write. *)
(***************************************************************************)
C10_OneLookupStagesInOrder ==
    /\ Cardinality(Entries("get_city_data")) <= 1
    /\ (pc = "Done" /\ city # None) => Cardinality(Entries("get_city_data")) = 1
    /\ IsPrefix(StageCalls, MainOrder)
    /\ (pc = "Done" /\ FetchSucceeded) =>
          /\ IsPrefix(MainOrder, Calls)
          /\ Cardinality(Printed(log[2].out, "Temperature")) = 1
          /\ log[4].before = file

C10_Witness ==
    /\ pc = "Done"
    /\ FetchSucceeded
    /\ Calls = MainOrder
    /\ log[3].io = "ok"
    /\ file # file0

====
